---------------------------- MODULE Spec2Model ----------------------------
(***************************************************************************)
(* A model of the PDF Audio Converter package (pdf_audio_converter):       *)
(*   - the chunk generator of text_to_speech             (tts.py)          *)
(*   - TTSEngine.speak / speak_async / stop              (tts.py)          *)
(*   - extract_text_from_pdf and _wrap_text              (utils.py)        *)
(*   - _recognize, transcribe_audio_file, speech_to_text (stt.py)          *)
(* Strings are sequences of one-character strings.  The third-party        *)
(* libraries (pyttsx3, PyPDF2, SpeechRecognition) are the environment:     *)
(* their outcomes are chosen nondeterministically.                         *)
(***************************************************************************)
EXTENDS Integers, Sequences, FiniteSets, TLC

VARIABLES
    \* ---- text_to_speech.chunks (tts.py) ----
    ck_pc,          \* "idle" | "gen" | "done"
    text,           \* the text argument
    chunk_size,     \* the chunk_size argument
    s,              \* local s = text.strip()
    i,              \* the loop index of range(0, len(s), chunk_size)
    chunks_out,     \* the chunks yielded so far, in order
    \* ---- extract_text_from_pdf (utils.py) ----
    ex_pc,          \* "idle" | "returned" | "raised"
    pages,          \* reader.pages: what extract_text() does on each page
    page_range,     \* the page_range argument, <<start, end>>, each optional
    start,          \* local start after normalization
    end,            \* local end after normalization
    pages_read,     \* the 1-based numbers of the pages read, in order
    texts,          \* local texts: the per-page strings
    ex_result,      \* the string returned
    \* ---- _wrap_text (utils.py) ----
    wr_pc,          \* "idle" | "for" | "while" | "done" | "raised"
    lines,          \* the lines argument
    max_width,      \* the max_width argument
    char_width,     \* the char_width argument
    max_chars,      \* local max_chars
    li,             \* how many of the lines the for loop has taken
    line,           \* local line: what is left of the current line
    wrapped,        \* the strings yielded so far, in order
    wrapped_from,   \* for each string yielded, the number of its input line
    \* ---- TTSEngine: one session (tts.py) ----
    playbacks,      \* how many times speak_async was called on the session
    th_pc,          \* per playback, its thread: "none" | "say" | "run" |
                    \*   "finished" | "failed"
    th_chunks,      \* per playback, list(chunks): the chunk strings
    th_idx,         \* per playback, the place of "for chunk in chunks"
    queue,          \* the engine's queue of utterances <<playback, chunk>>
    loop_owner,     \* the playback whose runAndWait runs the engine, or 0
    spoken,         \* the utterances that began rendering, in order
    stop_seen,      \* per playback, whether stop() was called while it ran
    \* ---- transcribe_audio_file, speech_to_text, _recognize (stt.py) ----
    stt_pc,         \* "idle" | "captured" | "returned" | "raised"
    stt_fn,         \* the function called: "file" | "mic"
    language,       \* the language argument
    phrase_time_limit, \* the phrase_time_limit argument (mic), optional
    mic_present,    \* whether the machine has a microphone (mic)
    audio,          \* local audio: the clip captured
    backend,        \* what recognize_google did: "none" | "text" |
                    \*   "UnknownValueError" | "RequestError"
    stt_ops,        \* the library calls this call made, in order
    stt_result,     \* the string returned
    stt_log,        \* what logger.error has logged, over all calls
    log_mark,       \* the length of stt_log when this call began
    stt_calls,      \* how many calls were begun
    \* ---- write_text_to_pdf (utils.py) ----
    wt_pc,          \* "idle" | "loop" | "saved"
    wt_text,        \* the text argument
    wt_lines,       \* what _wrap_text yields for the text, in order
    y,              \* local y: the cursor, in points
    page_no,        \* the page of the canvas being drawn on
    draws,          \* the drawString calls made: page, y and string
    \* ---- the command line: app, _cmd_tts, _cmd_stt (main.py) ----
    cli_pc,         \* "idle" | "parsed" | "done"
    cli_cmd,        \* the subcommand: "tts" | "stt"
    given_rate,     \* --rate as given on the command line, optional
    given_volume,   \* --volume as given, in tenths, optional
    args_rate,      \* args.rate after parse_args
    args_volume,    \* args.volume after parse_args, in tenths
    args_speak_back, \* args.speak_back (stt)
    engine_set,     \* whether a TTSEngine was made and configured
    engine_rate,    \* the engine's "rate" property
    engine_volume,  \* the engine's "volume" property, in tenths
    \* ---- the window: App._start_tts, App._stop_tts (gui.py) ----
    gui_handle,     \* self._tts_engine: 0 for None, or the session held
    sessions,       \* the TTSEngine sessions text_to_speech has made
    gui_last,       \* what the last press showed: "none" | "warning" |
                    \* "error" | "reading" | "stopped" | "ignored"
    stops_pressed,  \* the Stop presses so far
    gs_pc,          \* per session, its thread: "none" | "say" | "run" |
                    \* "finished"
    gs_chunks,      \* per session, the number of chunks of its text
    gs_todo,        \* per session, the chunks speak has not queued yet
    gs_queue,       \* per session, the utterances queued in its engine
    gs_spoken,      \* per session, the utterances its engine has rendered
    gs_stops        \* per session, the stop() calls made on it

chunkVars == <<ck_pc, text, chunk_size, s, i, chunks_out>>

extractVars ==
    <<ex_pc, pages, page_range, start, end, pages_read, texts, ex_result>>

wrapVars ==
    <<wr_pc, lines, max_width, char_width, max_chars, li, line, wrapped,
      wrapped_from>>

ttsVars ==
    <<playbacks, th_pc, th_chunks, th_idx, queue, loop_owner, spoken,
      stop_seen>>

sttVars ==
    <<stt_pc, stt_fn, language, phrase_time_limit, mic_present, audio,
      backend, stt_ops, stt_result, stt_log, log_mark, stt_calls>>

writeVars == <<wt_pc, wt_text, wt_lines, y, page_no, draws>>

cliVars ==
    <<cli_pc, cli_cmd, given_rate, given_volume, args_rate, args_volume,
      args_speak_back, engine_set, engine_rate, engine_volume>>

guiVars ==
    <<gui_handle, sessions, gui_last, stops_pressed, gs_pc, gs_chunks,
      gs_todo, gs_queue, gs_spoken, gs_stops>>

vars ==
    <<chunkVars, extractVars, wrapVars, ttsVars, sttVars, writeVars, cliVars,
      guiVars>>

notGui ==
    <<chunkVars, extractVars, wrapVars, ttsVars, sttVars, writeVars, cliVars>>

notChunk ==
    <<extractVars, wrapVars, ttsVars, sttVars, writeVars, cliVars,
      guiVars>>

notExtract ==
    <<chunkVars, wrapVars, ttsVars, sttVars, writeVars, cliVars,
      guiVars>>

notWrap ==
    <<chunkVars, extractVars, ttsVars, sttVars, writeVars, cliVars,
      guiVars>>

notTTS ==
    <<chunkVars, extractVars, wrapVars, sttVars, writeVars, cliVars,
      guiVars>>

notSTT ==
    <<chunkVars, extractVars, wrapVars, ttsVars, writeVars, cliVars,
      guiVars>>

notWrite ==
    <<chunkVars, extractVars, wrapVars, ttsVars, sttVars, cliVars,
      guiVars>>

notCli ==
    <<chunkVars, extractVars, wrapVars, ttsVars, sttVars, writeVars,
      guiVars>>

(***************************************************************************)
(* Bounds of the model.                                                    *)
(***************************************************************************)
MaxLen == 4
MaxChunkSize == 3
MaxPages == 3
MaxLines == 2
MaxWidth == 4
MaxPlaybacks == 2
MaxChunks == 2
MaxCalls == 2
MaxTextLines == 110
MaxReads == 2
MaxStops == 1
MaxGuiChunks == 1

(***************************************************************************)
(* Strings.                                                                *)
(***************************************************************************)
\* the characters str.strip() removes (those the model's texts can hold)
Whitespace == {" ", "\n", "\t"}

Min(a, b) == IF a < b THEN a ELSE b

Max(a, b) == IF a > b THEN a ELSE b

\* all strings over alphabet of length 0..n
Strings(alphabet, n) == UNION {[1..k -> alphabet] : k \in 0..n}

\* Python's s[a:b] for 0 <= a, 0 <= b (0-based, end exclusive, clipped)
Slice(str, a, b) == SubSeq(str, a + 1, Min(b, Len(str)))

RECURSIVE LStrip(_)
LStrip(str) ==
    IF str # <<>> /\ Head(str) \in Whitespace THEN LStrip(Tail(str)) ELSE str

RECURSIVE RStrip(_)
RStrip(str) ==
    IF str # <<>> /\ str[Len(str)] \in Whitespace
    THEN RStrip(SubSeq(str, 1, Len(str) - 1))
    ELSE str

\* Python's str.strip()
Strip(str) == RStrip(LStrip(str))

\* the concatenation of a sequence of strings
RECURSIVE Concat(_)
Concat(strs) == IF strs = <<>> THEN <<>> ELSE Head(strs) \o Concat(Tail(strs))

(***************************************************************************)
(* text_to_speech: the chunk generator (tts.py 95-98).                     *)
(***************************************************************************)
ChunkAlphabet == {"a", "b", " "}

\* a mutant of ChunkSlice: the slice is one character short
ChunkSliceShort(str, k, n) == Slice(str, k, k + n - 1)

\* s[i : i + chunk_size]
ChunkSlice(str, k, n) == Slice(str, k, k + n)

ChunkIdle ==
    /\ ck_pc = "idle"
    /\ text = <<>>
    /\ chunk_size = 1
    /\ s = <<>>
    /\ i = 0
    /\ chunks_out = <<>>

\* the generator starts: s = text.strip(), the range starts at 0
ChunksStart ==
    /\ ck_pc = "idle"
    /\ \E t \in Strings(ChunkAlphabet, MaxLen), n \in 1..MaxChunkSize :
          /\ text' = t
          /\ chunk_size' = n
          /\ s' = Strip(t)
    /\ i' = 0
    /\ chunks_out' = <<>>
    /\ ck_pc' = "gen"
    /\ UNCHANGED notChunk

\* one iteration of "for i in range(0, len(s), chunk_size): yield ..."
ChunksYield ==
    /\ ck_pc = "gen"
    /\ i < Len(s)
    /\ chunks_out' = Append(chunks_out, ChunkSlice(s, i, chunk_size))
    /\ i' = i + chunk_size
    /\ UNCHANGED <<ck_pc, text, chunk_size, s>>
    /\ UNCHANGED notChunk

\* the range is exhausted: the generator returns
ChunksExhausted ==
    /\ ck_pc = "gen"
    /\ i >= Len(s)
    /\ ck_pc' = "done"
    /\ UNCHANGED <<text, chunk_size, s, i, chunks_out>>
    /\ UNCHANGED notChunk

NextChunk == ChunksStart \/ ChunksYield \/ ChunksExhausted

\* r is t without its leading and trailing whitespace
IsStripOf(r, t) ==
    \E a \in 0..Len(t), b \in 0..Len(t) :
        /\ a + b <= Len(t)
        /\ r = SubSeq(t, a + 1, Len(t) - b)
        /\ \A k \in 1..a : t[k] \in Whitespace
        /\ \A k \in (Len(t) - b + 1)..Len(t) : t[k] \in Whitespace
        /\ r # <<>> => (r[1] \notin Whitespace /\ r[Len(r)] \notin Whitespace)

\* C1: when the chunk generator of text_to_speech is exhausted, the chunks
\* it yielded concatenate, in order, to text.strip(); every chunk but the
\* last has exactly chunk_size characters and the last has between 1 and
\* chunk_size.
C1_ChunksPartition ==
    ck_pc = "done" =>
        /\ IsStripOf(Concat(chunks_out), text)
        /\ \A k \in 1..(Len(chunks_out) - 1) : Len(chunks_out[k]) = chunk_size
        /\ chunks_out # <<>> =>
              Len(chunks_out[Len(chunks_out)]) \in 1..chunk_size

\* a text with whitespace to trim, split into several chunks, the last short
C1_Witness ==
    /\ ck_pc = "done"
    /\ Len(s) < Len(text)
    /\ Len(chunks_out) >= 2
    /\ Len(chunks_out[Len(chunks_out)]) < chunk_size

(***************************************************************************)
(* extract_text_from_pdf (utils.py 34-64).                                 *)
(***************************************************************************)
\* an optional integer: None, or <<k>> for the integer k
None == <<>>

Some(k) == <<k>>

\* what page.extract_text() does on a page: it raises, returns None, or
\* returns a string
PageRaises == [kind |-> "raise", text |-> <<>>]

PageNone == [kind |-> "none", text |-> <<>>]

PageStr(str) == [kind |-> "str", text |-> str]

PageValues ==
    {PageRaises, PageNone, PageStr(<<>>), PageStr(<<"a">>),
     PageStr(<<" ", "b">>), PageStr(<<"c", "\n">>)}

\* the documents and the optional page bounds the model calls extract with
Documents == UNION {[1..k -> PageValues] : k \in 0..MaxPages}

OptBounds == {None} \cup {Some(k) : k \in (-1)..(MaxPages + 1)}

\* a mutant of NormStart: an absent start becomes 0
NormStartZero(st) == IF st = None THEN 0 ELSE st[1]

\* if start is None: start = 1
NormStart(st) == IF st = None THEN 1 ELSE st[1]

\* if end is None or end > n: end = n
NormEnd(en, n) == IF en = None \/ en[1] > n THEN n ELSE en[1]

\* if start < 1 or start > end: raise ValueError
InvalidRange(st, en) == st < 1 \/ st > en

\* a mutant of RangeFirst: the loop starts one page late
RangeFirstLate(st) == st

\* the first index of range(start - 1, end)
RangeFirst(st) == st - 1

\* the 0-based indices of range(a, b), in order
RangeSeq(a, b) == [k \in 1..(b - a) |-> a + k - 1]

\* try: txt = page.extract_text() or ""  except Exception: txt = ""
PageText(page) == IF page.kind = "str" THEN page.text ELSE <<>>

\* a mutant of JoinNL: the strings are joined with nothing between them
JoinNoSeparator(strs) == Concat(strs)

\* "\n".join(strs)
RECURSIVE JoinNL(_)
JoinNL(strs) ==
    IF strs = <<>> THEN <<>>
    ELSE IF Len(strs) = 1 THEN strs[1]
    ELSE strs[1] \o <<"\n">> \o JoinNL(Tail(strs))

\* the whole of extract_text_from_pdf on document d with page range rng
ExtractOutcome(d, rng) ==
    LET n == Len(d)
        st == NormStart(rng[1])
        en == NormEnd(rng[2], n)
        idx == RangeSeq(RangeFirst(st), en)
        txts == [k \in 1..Len(idx) |-> PageText(d[idx[k] + 1])]
    IN  IF InvalidRange(st, en)
        THEN [pc |-> "raised", start |-> st, end |-> en, read |-> <<>>,
              texts |-> <<>>, result |-> <<>>]
        ELSE [pc |-> "returned", start |-> st, end |-> en,
              read |-> [k \in 1..Len(idx) |-> idx[k] + 1],
              texts |-> txts, result |-> Strip(JoinNL(txts))]

ExtractIdle ==
    /\ ex_pc = "idle"
    /\ pages = <<>>
    /\ page_range = <<None, None>>
    /\ start = 0
    /\ end = 0
    /\ pages_read = <<>>
    /\ texts = <<>>
    /\ ex_result = <<>>

\* one call of extract_text_from_pdf
ExtractCall ==
    /\ ex_pc = "idle"
    /\ \E d \in Documents, st \in OptBounds, en \in OptBounds :
          LET o == ExtractOutcome(d, <<st, en>>)
          IN  /\ pages' = d
              /\ page_range' = <<st, en>>
              /\ ex_pc' = o.pc
              /\ start' = o.start
              /\ end' = o.end
              /\ pages_read' = o.read
              /\ texts' = o.texts
              /\ ex_result' = o.result
    /\ UNCHANGED notExtract

NextExtract == ExtractCall

\* the outcome a finished call left in the state
CallOutcome == [pc |-> ex_pc, read |-> pages_read, result |-> ex_result]

\* the outcome of calling extract on the same document with range rng
SameAs(rng) ==
    LET o == ExtractOutcome(pages, rng)
    IN  CallOutcome = [pc |-> o.pc, read |-> o.read, result |-> o.result]

\* C4: a call of extract_text_from_pdf either raises ValueError having read
\* no page, or returns having read exactly the pages start..end, in order,
\* of a normalized range with 1 <= start <= end <= N; a given start below 1
\* and a given start above a given end are rejected.
C4_RangeValidated ==
    LET n == Len(pages) IN
    /\ ex_pc = "raised" => pages_read = <<>>
    /\ ex_pc = "returned" =>
          /\ 1 <= start /\ start <= end /\ end <= n
          /\ pages_read = [k \in 1..(end - start + 1) |-> start + k - 1]
          /\ page_range[1] # None => start = page_range[1][1]
          /\ page_range[2] # None => end = Min(page_range[2][1], n)
    /\ (ex_pc # "idle" /\ page_range[1] # None /\ page_range[1][1] < 1)
          => ex_pc = "raised"
    /\ (ex_pc # "idle" /\ page_range[1] # None /\ page_range[2] # None
           /\ page_range[1][1] > page_range[2][1])
          => ex_pc = "raised"

\* an accepted proper sub-range of a three-page document
C4_Witness ==
    /\ ex_pc = "returned"
    /\ Len(pages) = 3
    /\ page_range = <<Some(2), Some(3)>>
    /\ pages_read = <<2, 3>>

\* C5 (as amended): an absent start is treated as 1, an absent end or an end
\* above N as N: extract(None, None) has the outcome of extract(1, N), and
\* extract(s, e) with e > N the outcome of extract(s, N); an end below 1 is
\* not normalized, and with it the call raises ValueError.
C5_Normalization ==
    LET n == Len(pages)
        st == page_range[1]
        en == page_range[2]
    IN  ex_pc # "idle" =>
          /\ st = None => SameAs(<<Some(1), en>>)
          /\ en = None => SameAs(<<st, Some(n)>>)
          /\ (st = None /\ en = None) => SameAs(<<Some(1), Some(n)>>)
          /\ (en # None /\ en[1] > n) => SameAs(<<st, Some(n)>>)
          /\ (en # None /\ en[1] < 1) => ex_pc = "raised"

\* C5 (as stated): every out-of-bounds end, below 1 as well as above N, is
\* treated as N.
C5_OutOfBoundsEndIsLast ==
    LET n == Len(pages)
        st == page_range[1]
        en == page_range[2]
    IN  ex_pc # "idle" =>
          /\ (st = None /\ en = None) => SameAs(<<Some(1), Some(n)>>)
          /\ (en = None \/ en[1] > n \/ en[1] < 1) => SameAs(<<st, Some(n)>>)

\* both bounds absent on a document whose pages all yield text, and an end
\* beyond the last page
C5_Witness ==
    /\ ex_pc = "returned"
    /\ Len(pages) = 2
    /\ page_range \in {<<None, None>>, <<Some(2), Some(3)>>}
    /\ ex_result # <<>>
    /\ pages_read[Len(pages_read)] = 2

\* what the claim says a page contributes
C6_Contribution(page) == IF page.kind = "str" THEN page.text ELSE <<>>

\* the contributions of pages a..b, each two separated by one newline
RECURSIVE C6_Joined(_, _)
C6_Joined(a, b) ==
    IF a > b THEN <<>>
    ELSE IF a = b THEN C6_Contribution(pages[b])
    ELSE C6_Joined(a, b - 1) \o <<"\n">> \o C6_Contribution(pages[b])

\* C6: a page whose extraction raises or yields nothing never aborts the
\* call: every accepted range returns; the result is the trimmed join, with
\* single newlines, of the pages' texts in page order, a failing page
\* contributing the empty string; it is empty when no page yields text.
C6_LenientPages ==
    /\ (ex_pc # "idle" /\ 1 <= start /\ start <= end) => ex_pc = "returned"
    /\ ex_pc = "returned" =>
          /\ Len(texts) = end - start + 1
          /\ \A k \in 1..Len(texts) :
                texts[k] = C6_Contribution(pages[start + k - 1])
          /\ IsStripOf(ex_result, C6_Joined(start, end))
          /\ (\A k \in start..end : C6_Contribution(pages[k]) = <<>>)
                => ex_result = <<>>

\* a raising page between two pages with text
C6_Witness ==
    /\ ex_pc = "returned"
    /\ Len(pages) = 3
    /\ pages[1].kind = "str" /\ pages[2].kind = "raise" /\ pages[3].kind = "str"
    /\ pages_read = <<1, 2, 3>>
    /\ ex_result = <<"b", "\n", "\n", "c">>

(***************************************************************************)
(* _wrap_text (utils.py 94-101).                                           *)
(***************************************************************************)
\* the lines and the widths the model wraps; the last line and the last
\* widths are those of tests/test_smoke.py
LineValues ==
    {<<>>, <<"a">>, <<"a", "b">>, <<"a", "b", "c">>,
     <<"a", "b", "c", "d", "e", "f", "g", "h", "i", "j">>}

LineLists == UNION {[1..k -> LineValues] : k \in 0..MaxLines}

MaxWidths == (0..MaxWidth) \cup {30}

CharWidths == {0, 1, 2, 6}

\* max(int(max_width // char_width), 1), for char_width > 0
MaxChars(mw, cw) == Max(mw \div cw, 1)

\* a mutant of LineTooLong: a line of exactly max_chars is cut as well
LineTooLongOrFull(str, mc) == Len(str) >= mc

\* a mutant of LineTooLong: a line one character too long still fits
LineTooLongByTwo(str, mc) == Len(str) > mc + 1

\* the condition of "while len(line) > max_chars"
LineTooLong(str, mc) == Len(str) > mc

\* line[:max_chars]
LinePrefix(str, mc) == Slice(str, 0, mc)

\* a mutant of LineRest: the remainder loses its first character
LineRestSkipsOne(str, mc) == Slice(str, mc + 1, Len(str))

\* line[max_chars:]
LineRest(str, mc) == Slice(str, mc, Len(str))

WrapIdle ==
    /\ wr_pc = "idle"
    /\ lines = <<>>
    /\ max_width = 0
    /\ char_width = 1
    /\ max_chars = 1
    /\ li = 0
    /\ line = <<>>
    /\ wrapped = <<>>
    /\ wrapped_from = <<>>

\* the generator starts and computes max_chars
WrapStart ==
    /\ wr_pc = "idle"
    /\ \E ls \in LineLists, mw \in MaxWidths, cw \in CharWidths \ {0} :
          /\ lines' = ls
          /\ max_width' = mw
          /\ char_width' = cw
          /\ max_chars' = MaxChars(mw, cw)
    /\ wr_pc' = "for"
    /\ UNCHANGED <<li, line, wrapped, wrapped_from>>
    /\ UNCHANGED notWrap

\* max_width // 0 raises ZeroDivisionError before anything is yielded
WrapZeroDivision ==
    /\ wr_pc = "idle"
    /\ \E ls \in LineLists, mw \in MaxWidths :
          /\ lines' = ls
          /\ max_width' = mw
    /\ char_width' = 0
    /\ wr_pc' = "raised"
    /\ UNCHANGED <<max_chars, li, line, wrapped, wrapped_from>>
    /\ UNCHANGED notWrap

\* "for line in lines" takes the next line
WrapNextLine ==
    /\ wr_pc = "for"
    /\ li < Len(lines)
    /\ li' = li + 1
    /\ line' = lines[li + 1]
    /\ wr_pc' = "while"
    /\ UNCHANGED <<lines, max_width, char_width, max_chars, wrapped,
                   wrapped_from>>
    /\ UNCHANGED notWrap

\* the body of the while loop: yield a full-width slice, keep the rest
WrapYieldSlice ==
    /\ wr_pc = "while"
    /\ LineTooLong(line, max_chars)
    /\ wrapped' = Append(wrapped, LinePrefix(line, max_chars))
    /\ wrapped_from' = Append(wrapped_from, li)
    /\ line' = LineRest(line, max_chars)
    /\ UNCHANGED <<wr_pc, lines, max_width, char_width, max_chars, li>>
    /\ UNCHANGED notWrap

\* the while loop is over: yield what is left of the line
WrapYieldRest ==
    /\ wr_pc = "while"
    /\ ~LineTooLong(line, max_chars)
    /\ wrapped' = Append(wrapped, line)
    /\ wrapped_from' = Append(wrapped_from, li)
    /\ wr_pc' = "for"
    /\ UNCHANGED <<lines, max_width, char_width, max_chars, li, line>>
    /\ UNCHANGED notWrap

\* the lines are exhausted: the generator returns
WrapExhausted ==
    /\ wr_pc = "for"
    /\ li >= Len(lines)
    /\ wr_pc' = "done"
    /\ UNCHANGED <<lines, max_width, char_width, max_chars, li, line, wrapped,
                   wrapped_from>>
    /\ UNCHANGED notWrap

NextWrap ==
    \/ WrapStart
    \/ WrapZeroDivision
    \/ WrapNextLine
    \/ WrapYieldSlice
    \/ WrapYieldRest
    \/ WrapExhausted

\* C9: when _wrap_text is exhausted, the strings it yielded are, for each
\* input line in order, one run of consecutive strings whose concatenation
\* is that line: no character is lost or moved.
C9_WrapKeepsText ==
    wr_pc = "done" =>
        /\ Len(wrapped_from) = Len(wrapped)
        /\ \A j \in 1..(Len(wrapped) - 1) : wrapped_from[j] <= wrapped_from[j + 1]
        /\ \A k \in 1..Len(lines) :
              \E lo \in 1..Len(wrapped), hi \in 1..Len(wrapped) :
                  /\ {j \in 1..Len(wrapped) : wrapped_from[j] = k} = lo..hi
                  /\ Concat(SubSeq(wrapped, lo, hi)) = lines[k]
        /\ Concat(wrapped) = Concat(lines)

\* two lines, the first cut in several slices
C9_Witness ==
    /\ wr_pc = "done"
    /\ Len(lines) = 2
    /\ Len(lines[1]) = 3 /\ Len(lines[2]) = 2
    /\ max_chars = 2
    /\ Len(wrapped) = 3

\* C10 (as amended): no string _wrap_text yields has more than
\* max(floor(max_width / char_width), 1) characters.
C10_WidthAtLeastOne ==
    wr_pc \in {"for", "while", "done"} =>
        \A j \in 1..Len(wrapped) :
            Len(wrapped[j]) <= Max(max_width \div char_width, 1)

\* C10 (as stated): no string _wrap_text yields has more than
\* floor(max_width / char_width) characters.
C10_WidthFloor ==
    wr_pc \in {"for", "while", "done"} =>
        \A j \in 1..Len(wrapped) :
            Len(wrapped[j]) <= max_width \div char_width

\* a line of three characters cut at a width whose quotient is below 1
C10_Witness ==
    /\ wr_pc = "done"
    /\ max_width \div char_width = 0
    /\ lines = <<<<"a", "b", "c">>>>
    /\ wrapped = <<<<"a">>, <<"b">>, <<"c">>>>

\* the call of tests/test_smoke.py: ["abcdefghij"], max_width 30, char_width 6
SmokeTestCall ==
    /\ lines = <<<<"a", "b", "c", "d", "e", "f", "g", "h", "i", "j">>>>
    /\ max_width = 30
    /\ char_width = 6

\* C11 (as amended): the remainder that ends a line's run is what is left
\* once it fits, so it is empty only for an empty input line, which yields
\* one empty string; wrapping ["abcdefghij"] with max_width 30 and
\* char_width 6 yields exactly ["abcde", "fghij"].
C11_RemainderOnceItFits ==
    wr_pc = "done" =>
        /\ \A j \in 1..Len(wrapped) :
              wrapped[j] = <<>> => lines[wrapped_from[j]] = <<>>
        /\ \A k \in 1..Len(lines) :
              lines[k] = <<>> =>
                  Cardinality({j \in 1..Len(wrapped) : wrapped_from[j] = k}) = 1
        /\ SmokeTestCall =>
              wrapped = <<<<"a", "b", "c", "d", "e">>, <<"f", "g", "h", "i", "j">>>>

\* C11 (as stated): wrapping ["abcdefghij"] with max_width 30 and
\* char_width 6 yields the three strings ["abcde", "fghij", ""].
C11_EmptyRemainderEmitted ==
    (wr_pc = "done" /\ SmokeTestCall) =>
        wrapped = <<<<"a", "b", "c", "d", "e">>, <<"f", "g", "h", "i", "j">>,
                    <<>>>>

\* the call of the smoke test has run to its end
C11_Witness ==
    /\ wr_pc = "done"
    /\ SmokeTestCall
    /\ max_chars = 5
    /\ Len(wrapped) = 2

(***************************************************************************)
(* TTSEngine: speak, speak_async and stop on one session (tts.py 44-77).   *)
(* The pyttsx3 engine is the environment: say() queues an utterance,       *)
(* runAndWait() renders the queue and returns when it is empty (and raises *)
(* RuntimeError when the engine's loop already runs), stop() empties the   *)
(* queue and cuts the utterance being rendered.                            *)
(***************************************************************************)
Playbacks == 1..MaxPlaybacks

\* the chunk lists speak_async is called with: a chunk is empty or not
ChunkValues == {<<>>, <<"a">>}

ChunkLists == UNION {[1..k -> ChunkValues] : k \in 0..MaxChunks}

\* the playbacks whose thread is inside speak()
InFlight == {p \in Playbacks : th_pc[p] \in {"say", "run"}}

TTSIdle ==
    /\ playbacks = 0
    /\ th_pc = [p \in Playbacks |-> "none"]
    /\ th_chunks = [p \in Playbacks |-> <<>>]
    /\ th_idx = [p \in Playbacks |-> 1]
    /\ queue = <<>>
    /\ loop_owner = 0
    /\ spoken = <<>>
    /\ stop_seen = [p \in Playbacks |-> FALSE]

\* self.engine.stop(): the queue is emptied; the call changes nothing of a
\* thread that is inside speak()
EngineStopped ==
    /\ queue' = <<>>
    /\ stop_seen' = [p \in Playbacks |-> stop_seen[p] \/ p \in InFlight]

\* speak_async: self.stop(), then a new thread running speak(list(chunks))
SpeakAsync ==
    /\ playbacks < MaxPlaybacks
    /\ EngineStopped
    /\ playbacks' = playbacks + 1
    /\ \E cs \in ChunkLists :
          th_chunks' = [th_chunks EXCEPT ![playbacks + 1] = cs]
    /\ th_pc' = [th_pc EXCEPT ![playbacks + 1] = "say"]
    /\ UNCHANGED <<th_idx, loop_owner, spoken>>
    /\ UNCHANGED notTTS

\* the session's stop(), called from outside while a playback is in flight
Stop ==
    /\ InFlight # {}
    /\ EngineStopped
    /\ UNCHANGED <<playbacks, th_pc, th_chunks, th_idx, loop_owner, spoken>>
    /\ UNCHANGED notTTS

\* speak, one iteration of the for loop: a non-empty chunk is queued
SpeakSay(p) ==
    /\ th_pc[p] = "say"
    /\ th_idx[p] <= Len(th_chunks[p])
    /\ th_chunks[p][th_idx[p]] # <<>>
    /\ queue' = Append(queue, <<p, th_idx[p]>>)
    /\ th_idx' = [th_idx EXCEPT ![p] = @ + 1]
    /\ UNCHANGED <<playbacks, th_pc, th_chunks, loop_owner, spoken, stop_seen>>
    /\ UNCHANGED notTTS

\* speak, one iteration of the for loop: "if not chunk: continue"
SpeakSkipEmpty(p) ==
    /\ th_pc[p] = "say"
    /\ th_idx[p] <= Len(th_chunks[p])
    /\ th_chunks[p][th_idx[p]] = <<>>
    /\ th_idx' = [th_idx EXCEPT ![p] = @ + 1]
    /\ UNCHANGED <<playbacks, th_pc, th_chunks, queue, loop_owner, spoken,
                   stop_seen>>
    /\ UNCHANGED notTTS

\* speak, after the loop: self.engine.runAndWait() starts the engine's loop
SpeakRunAndWait(p) ==
    /\ th_pc[p] = "say"
    /\ th_idx[p] > Len(th_chunks[p])
    /\ loop_owner = 0
    /\ loop_owner' = p
    /\ th_pc' = [th_pc EXCEPT ![p] = "run"]
    /\ UNCHANGED <<playbacks, th_chunks, th_idx, queue, spoken, stop_seen>>
    /\ UNCHANGED notTTS

\* speak, after the loop: runAndWait() raises, another thread's loop runs
SpeakRunRaises(p) ==
    /\ th_pc[p] = "say"
    /\ th_idx[p] > Len(th_chunks[p])
    /\ loop_owner # 0
    /\ th_pc' = [th_pc EXCEPT ![p] = "failed"]
    /\ UNCHANGED <<playbacks, th_chunks, th_idx, queue, loop_owner, spoken,
                   stop_seen>>
    /\ UNCHANGED notTTS

\* the engine's loop takes the next utterance and begins to render it
EngineRender ==
    /\ loop_owner # 0
    /\ queue # <<>>
    /\ spoken' = Append(spoken, [play |-> Head(queue)[1],
                                 chunk |-> Head(queue)[2],
                                 after_stop |-> stop_seen[Head(queue)[1]]])
    /\ queue' = Tail(queue)
    /\ UNCHANGED <<playbacks, th_pc, th_chunks, th_idx, loop_owner, stop_seen>>
    /\ UNCHANGED notTTS

\* the queue is empty: runAndWait() returns and the thread ends
EngineLoopEnds ==
    /\ loop_owner # 0
    /\ queue = <<>>
    /\ th_pc' = [th_pc EXCEPT ![loop_owner] = "finished"]
    /\ loop_owner' = 0
    /\ UNCHANGED <<playbacks, th_chunks, th_idx, queue, spoken, stop_seen>>
    /\ UNCHANGED notTTS

NextTTS ==
    \/ SpeakAsync
    \/ Stop
    \/ \E p \in Playbacks : SpeakSay(p)
    \/ \E p \in Playbacks : SpeakSkipEmpty(p)
    \/ \E p \in Playbacks : SpeakRunAndWait(p)
    \/ \E p \in Playbacks : SpeakRunRaises(p)
    \/ EngineRender
    \/ EngineLoopEnds

\* playback p still has a chunk to queue, or a chunk of it is queued
StillPlaying(p) ==
    \/ /\ th_pc[p] = "say"
       /\ \E k \in th_idx[p]..Len(th_chunks[p]) : th_chunks[p][k] # <<>>
    \/ \E j \in 1..Len(queue) : queue[j][1] = p

\* C2: on one session at most one playback is active: once speak_async has
\* started a later playback, no earlier playback of the session still has
\* a chunk to queue or a chunk in the engine's queue.
C2_OnePlaybackAtATime ==
    \A p \in Playbacks, q \in Playbacks :
        (p < q /\ th_pc[q] # "none") => ~StillPlaying(p)

\* C3: once stop() was requested while a playback was in flight, no chunk
\* of that playback begins to render.
C3_NothingSpokenAfterStop ==
    \A j \in 1..Len(spoken) : ~spoken[j].after_stop

(***************************************************************************)
(* _recognize, transcribe_audio_file and speech_to_text (stt.py 37-72).    *)
(* The SpeechRecognition library is the environment: opening the audio     *)
(* file or the microphone succeeds or raises, and recognize_google returns *)
(* a text or raises UnknownValueError or RequestError.                     *)
(***************************************************************************)
Languages == {"en-US", "fa-IR"}

TimeLimits == {None, Some(1), Some(5)}

AudioClips == {"speech", "silence"}

Transcripts == {<<"h", "i">>, <<"o", "k">>}

\* a mutant of Recognized: a RequestError is logged and raised again
RecognizedReraising(outcome, transcript) ==
    IF outcome = "text"
    THEN [pc |-> "returned", result |-> transcript, logged |-> <<>>]
    ELSE IF outcome = "UnknownValueError"
    THEN [pc |-> "returned", result |-> <<>>, logged |-> <<>>]
    ELSE [pc |-> "raised", result |-> <<>>, logged |-> <<"STT API error">>]

\* _recognize: the try/except around recognizer.recognize_google
Recognized(outcome, transcript) ==
    IF outcome = "text"
    THEN [pc |-> "returned", result |-> transcript, logged |-> <<>>]
    ELSE IF outcome = "UnknownValueError"
    THEN [pc |-> "returned", result |-> <<>>, logged |-> <<>>]
    ELSE [pc |-> "returned", result |-> <<>>, logged |-> <<"STT API error">>]

\* a mutant of NoMicrophone: the failure is not logged
NoMicrophoneSilent == [pc |-> "returned", result |-> <<>>, logged |-> <<>>]

\* speech_to_text: the except branch around sr.Microphone()
NoMicrophone ==
    [pc |-> "returned", result |-> <<>>,
     logged |-> <<"No microphone available">>]

STTIdle ==
    /\ stt_pc = "idle"
    /\ stt_fn = "file"
    /\ language = "en-US"
    /\ phrase_time_limit = None
    /\ mic_present = TRUE
    /\ audio = "silence"
    /\ backend = "none"
    /\ stt_ops = <<>>
    /\ stt_result = <<>>
    /\ stt_log = <<>>
    /\ log_mark = 0
    /\ stt_calls = 0

\* a call begins: the state of the call before is cleared, the log is kept
BeginCall(fn, lang, limit) ==
    /\ stt_pc \in {"idle", "returned", "raised"}
    /\ stt_calls < MaxCalls
    /\ stt_calls' = stt_calls + 1
    /\ stt_fn' = fn
    /\ language' = lang
    /\ phrase_time_limit' = limit
    /\ backend' = "none"
    /\ log_mark' = Len(stt_log)

\* transcribe_audio_file up to the recognition: the file is opened and read
TranscribeFileRecords ==
    /\ \E lang \in Languages : BeginCall("file", lang, None)
    /\ \E a \in AudioClips : audio' = a
    /\ stt_ops' = <<"AudioFile", "record">>
    /\ stt_pc' = "captured"
    /\ stt_result' = <<>>
    /\ UNCHANGED <<mic_present, stt_log>>
    /\ UNCHANGED notSTT

\* transcribe_audio_file: opening the file raises, and the caller sees it
TranscribeFileOpenRaises ==
    /\ \E lang \in Languages : BeginCall("file", lang, None)
    /\ stt_ops' = <<"AudioFile">>
    /\ stt_pc' = "raised"
    /\ stt_result' = <<>>
    /\ UNCHANGED <<mic_present, audio, stt_log>>
    /\ UNCHANGED notSTT

\* speech_to_text: sr.Microphone() raises
SpeechToTextNoMicrophone ==
    /\ \E lang \in Languages, limit \in TimeLimits :
          BeginCall("mic", lang, limit)
    /\ mic_present' = FALSE
    /\ stt_ops' = <<"Microphone">>
    /\ stt_pc' = NoMicrophone.pc
    /\ stt_result' = NoMicrophone.result
    /\ stt_log' = stt_log \o NoMicrophone.logged
    /\ UNCHANGED audio
    /\ UNCHANGED notSTT

\* speech_to_text up to the recognition: calibration, then listening
SpeechToTextListens ==
    /\ \E lang \in Languages, limit \in TimeLimits : BeginCall("mic", lang, limit)
    /\ mic_present' = TRUE
    /\ \E a \in AudioClips : audio' = a
    /\ stt_ops' = <<"Microphone", "adjust_for_ambient_noise", "listen">>
    /\ stt_pc' = "captured"
    /\ stt_result' = <<>>
    /\ UNCHANGED stt_log
    /\ UNCHANGED notSTT

\* return _recognize(recognizer, audio, language), however the backend
\* ends; no text is recognized in a clip of silence
Recognize ==
    /\ stt_pc = "captured"
    /\ \E outcome \in {"text", "UnknownValueError", "RequestError"},
          transcript \in Transcripts :
          LET r == Recognized(outcome, transcript)
          IN  /\ audio = "silence" => outcome # "text"
              /\ backend' = outcome
              /\ stt_pc' = r.pc
              /\ stt_result' = r.result
              /\ stt_log' = stt_log \o r.logged
    /\ stt_ops' = Append(stt_ops, "recognize_google")
    /\ UNCHANGED <<stt_fn, language, phrase_time_limit, mic_present, audio,
                   log_mark, stt_calls>>
    /\ UNCHANGED notSTT

NextSTT ==
    \/ TranscribeFileRecords
    \/ TranscribeFileOpenRaises
    \/ SpeechToTextNoMicrophone
    \/ SpeechToTextListens
    \/ Recognize

\* how many times op occurs in the library calls of the current call
RECURSIVE CountOp(_, _)
CountOp(ops, op) ==
    IF ops = <<>> THEN 0
    ELSE (IF Head(ops) = op THEN 1 ELSE 0) + CountOp(Tail(ops), op)

\* what the current call has logged
LoggedByCall == SubSeq(stt_log, log_mark + 1, Len(stt_log))

\* C7: once audio was captured, the recognition is attempted exactly once
\* and no exception reaches the caller: the call returns the recognized
\* text, or the empty string with nothing logged on UnknownValueError, or
\* the empty string with the error logged on RequestError.
C7_RecognitionNeverFatal ==
    /\ stt_pc = "captured" => CountOp(stt_ops, "recognize_google") = 0
    /\ backend # "none" =>
          /\ stt_pc = "returned"
          /\ CountOp(stt_ops, "recognize_google") = 1
          /\ backend = "text" =>
                (stt_result \in Transcripts /\ LoggedByCall = <<>>)
          /\ backend = "UnknownValueError" =>
                (stt_result = <<>> /\ LoggedByCall = <<>>)
          /\ backend = "RequestError" =>
                (stt_result = <<>> /\ Len(LoggedByCall) = 1)

\* a file transcription whose backend request failed, after an earlier call
C7_Witness ==
    /\ stt_fn = "file"
    /\ backend = "RequestError"
    /\ stt_pc = "returned"
    /\ stt_calls = 2

\* C8: when acquiring the microphone fails, speech_to_text logs an error
\* and returns the empty string; it neither calibrates, listens nor
\* recognizes, and no exception reaches the caller.
C8_NoMicrophoneGraceful ==
    (stt_calls > 0 /\ stt_fn = "mic" /\ ~mic_present) =>
        /\ stt_ops = <<"Microphone">>
        /\ stt_pc = "returned"
        /\ stt_result = <<>>
        /\ LoggedByCall = <<"No microphone available">>
        /\ backend = "none"

\* speech_to_text was called without a microphone
C8_Witness ==
    /\ stt_fn = "mic"
    /\ ~mic_present
    /\ stt_pc = "returned"
    /\ stt_ops = <<"Microphone">>
    /\ phrase_time_limit = Some(5)

(***************************************************************************)
(* write_text_to_pdf (utils.py 67-91).  Lengths are in whole points: the   *)
(* A4 page of ReportLab is 595.27 x 841.89 points, and dropping the        *)
(* fractions changes neither max_chars nor any comparison of y with the    *)
(* margin.                                                                 *)
(***************************************************************************)
PageWidth == 595

PageHeight == 841

Margin == 50

LineHeight == 14

DefaultCharWidth == 6

\* a line longer than the 82 characters that fit the printable width
LongLine == [k \in 1..83 |-> "x"]

\* the j-th line of the texts the model writes: blank, "a" or "bb", and a
\* long first line when the text has one
TextLine(j, long) ==
    IF j = 1 /\ long THEN LongLine
    ELSE IF j % 3 = 0 THEN <<>>
    ELSE IF j % 3 = 1 THEN <<"a">>
    ELSE <<"b", "b">>

\* the concatenation of a sequence of strings, by halves (long sequences)
RECURSIVE Flatten(_)
Flatten(strs) ==
    IF strs = <<>> THEN <<>>
    ELSE IF Len(strs) = 1 THEN strs[1]
    ELSE LET h == Len(strs) \div 2
         IN  Flatten(SubSeq(strs, 1, h)) \o Flatten(SubSeq(strs, h + 1, Len(strs)))

\* a text of n lines, with or without a long first line and a final newline
MakeText(n, long, final_newline) ==
    Flatten([k \in 1..n |->
                TextLine(k, long)
                \o (IF k < n \/ final_newline THEN <<"\n">> ELSE <<>>)])
    \o (IF n = 0 /\ final_newline THEN <<"\n">> ELSE <<>>)

\* the pieces of str[lo..hi] between its line breaks, by halves: the last
\* piece of the left half and the first of the right half are one piece
RECURSIVE Pieces(_, _, _)
Pieces(str, lo, hi) ==
    IF lo > hi THEN <<<<>>>>
    ELSE IF lo = hi
    THEN (IF str[lo] = "\n" THEN <<<<>>, <<>>>> ELSE <<<<str[lo]>>>>)
    ELSE LET mid == (lo + hi) \div 2
             l == Pieces(str, lo, mid)
             r == Pieces(str, mid + 1, hi)
         IN  SubSeq(l, 1, Len(l) - 1) \o <<l[Len(l)] \o r[1]>> \o Tail(r)

\* str.splitlines(): the pieces, without an empty piece at the end
SplitLines(str) ==
    LET ps == Pieces(str, 1, Len(str))
    IN  IF ps[Len(ps)] = <<>> THEN SubSeq(ps, 1, Len(ps) - 1) ELSE ps

\* text.splitlines() or [""]
SplitLinesOrBlank(str) ==
    IF SplitLines(str) = <<>> THEN <<<<>>>> ELSE SplitLines(str)

\* what _wrap_text yields for one line
RECURSIVE WrapLine(_, _)
WrapLine(str, mc) ==
    IF LineTooLong(str, mc)
    THEN <<LinePrefix(str, mc)>> \o WrapLine(LineRest(str, mc), mc)
    ELSE <<str>>

\* list(_wrap_text(ls, mw, cw)), for cw > 0
WrapText(ls, mw, cw) ==
    Flatten([k \in 1..Len(ls) |-> WrapLine(ls[k], MaxChars(mw, cw))])

\* a mutant of NeedsNewPage: the page is turned one line too late
NeedsNewPageLate(cursor) == cursor < Margin - LineHeight

\* if y < margin
NeedsNewPage(cursor) == cursor < Margin

WriteIdle ==
    /\ wt_pc = "idle"
    /\ wt_text = <<>>
    /\ wt_lines = <<>>
    /\ y = PageHeight - Margin
    /\ page_no = 1
    /\ draws = <<>>

\* the call up to the loop: the canvas, y = height - margin, the wrapped
\* lines of the text
WriteStart ==
    /\ wt_pc = "idle"
    /\ \E n \in 0..MaxTextLines, long \in BOOLEAN, final_newline \in BOOLEAN :
          LET txt == MakeText(n, long, final_newline)
          IN  /\ wt_text' = txt
              /\ wt_lines' = WrapText(SplitLinesOrBlank(txt),
                                      PageWidth - 2 * Margin, DefaultCharWidth)
    /\ y' = PageHeight - Margin
    /\ page_no' = 1
    /\ draws' = <<>>
    /\ wt_pc' = "loop"
    /\ UNCHANGED notWrite

\* one iteration of the loop with y >= margin: the line is drawn at y
WriteDraw ==
    /\ wt_pc = "loop"
    /\ Len(draws) < Len(wt_lines)
    /\ ~NeedsNewPage(y)
    /\ draws' = Append(draws, [page |-> page_no, y |-> y,
                               line |-> wt_lines[Len(draws) + 1]])
    /\ y' = y - LineHeight
    /\ UNCHANGED <<wt_pc, wt_text, wt_lines, page_no>>
    /\ UNCHANGED notWrite

\* one iteration of the loop with y < margin: showPage, y = height - margin,
\* and the line is drawn at the top of the new page
WriteDrawOnNewPage ==
    /\ wt_pc = "loop"
    /\ Len(draws) < Len(wt_lines)
    /\ NeedsNewPage(y)
    /\ page_no' = page_no + 1
    /\ draws' = Append(draws, [page |-> page_no + 1, y |-> PageHeight - Margin,
                               line |-> wt_lines[Len(draws) + 1]])
    /\ y' = PageHeight - Margin - LineHeight
    /\ UNCHANGED <<wt_pc, wt_text, wt_lines>>
    /\ UNCHANGED notWrite

\* the lines are exhausted: c.save()
WriteSave ==
    /\ wt_pc = "loop"
    /\ Len(draws) = Len(wt_lines)
    /\ wt_pc' = "saved"
    /\ UNCHANGED <<wt_text, wt_lines, y, page_no, draws>>
    /\ UNCHANGED notWrite

NextWrite == WriteStart \/ WriteDraw \/ WriteDrawOnNewPage \/ WriteSave

\* the number of strings drawn on page p
DrawnOn(p) == Cardinality({k \in 1..Len(draws) : draws[k].page = p})

\* C12: every wrapped line is drawn, in wrapped order, at a y with
\* margin <= y <= pageHeight - margin; y goes down by the line height after
\* each draw; a page is started, with the cursor back at pageHeight - margin,
\* exactly when the cursor is below the bottom margin before a draw; every
\* page but the last holds the same number of lines.
C12_CursorWithinPage ==
    /\ \A k \in 1..Len(draws) :
          /\ Margin <= draws[k].y /\ draws[k].y <= PageHeight - Margin
          /\ draws[k].line = wt_lines[k]
          /\ k = 1 => (draws[k].page = 1 /\ draws[k].y = PageHeight - Margin)
          /\ k > 1 =>
                IF draws[k - 1].y - LineHeight < Margin
                THEN /\ draws[k].page = draws[k - 1].page + 1
                     /\ draws[k].y = PageHeight - Margin
                ELSE /\ draws[k].page = draws[k - 1].page
                     /\ draws[k].y = draws[k - 1].y - LineHeight
    /\ draws # <<>> =>
          (y = draws[Len(draws)].y - LineHeight /\ page_no = draws[Len(draws)].page)
    /\ \A p \in 1..(page_no - 1), q \in 1..(page_no - 1) : DrawnOn(p) = DrawnOn(q)
    /\ wt_pc = "saved" => Len(draws) = Len(wt_lines)

\* a text written on three pages, its long first line wrapped
C12_Witness ==
    /\ wt_pc = "saved"
    /\ page_no = 3
    /\ Len(wt_lines[1]) = 82
    /\ DrawnOn(1) = 53 /\ DrawnOn(2) = 53 /\ DrawnOn(3) >= 1

(***************************************************************************)
(* The command line: app, _cmd_tts and _cmd_stt (main.py 39-105), with the *)
(* defaults of config.py.  Volumes are in tenths: 9 is 0.9.                *)
(***************************************************************************)
DefaultRate == 180

DefaultVolume == 9

\* the values --rate and --volume are given with, or None when not given
GivenRates == {None} \cup {Some(r) : r \in {-1, 0, 1, 100, 180, 300}}

GivenVolumes == {None} \cup {Some(v) : v \in {0, 5, 9, 10}}

\* add_argument(..., default=d): the value given, or the default
ArgOrDefault(given, d) == IF given = None THEN d ELSE given[1]

\* a mutant of PyOr: the left operand is kept also when it is zero
PyOrKeepsZero(a, b) == a

\* Python's "a or b" on numbers: b when a is zero
PyOr(a, b) == IF a = 0 THEN b ELSE a

CliIdle ==
    /\ cli_pc = "idle"
    /\ cli_cmd = "tts"
    /\ given_rate = None
    /\ given_volume = None
    /\ args_rate = DefaultRate
    /\ args_volume = DefaultVolume
    /\ args_speak_back = FALSE
    /\ engine_set = FALSE
    /\ engine_rate = 0
    /\ engine_volume = 0

\* app: parse_args on a command line
AppParses ==
    /\ cli_pc = "idle"
    /\ \E cmd \in {"tts", "stt"}, r \in GivenRates, v \in GivenVolumes,
          sb \in BOOLEAN :
          /\ cmd = "tts" => ~sb
          /\ cli_cmd' = cmd
          /\ given_rate' = r
          /\ given_volume' = v
          /\ args_rate' = ArgOrDefault(r, DefaultRate)
          /\ args_volume' = ArgOrDefault(v, DefaultVolume)
          /\ args_speak_back' = sb
    /\ cli_pc' = "parsed"
    /\ UNCHANGED <<engine_set, engine_rate, engine_volume>>
    /\ UNCHANGED notCli

\* text_to_speech(txt, rate=args.rate or Defaults.tts_rate,
\*                volume=args.volume or Defaults.tts_volume), up to
\* TTSEngine._configure
EngineConfigured ==
    /\ engine_set' = TRUE
    /\ engine_rate' = PyOr(args_rate, DefaultRate)
    /\ engine_volume' = PyOr(args_volume, DefaultVolume)

\* _cmd_tts
CmdTts ==
    /\ cli_pc = "parsed"
    /\ cli_cmd = "tts"
    /\ EngineConfigured
    /\ cli_pc' = "done"
    /\ UNCHANGED <<cli_cmd, given_rate, given_volume, args_rate, args_volume,
                   args_speak_back>>
    /\ UNCHANGED notCli

\* _cmd_stt with --speak-back
CmdSttSpeakBack ==
    /\ cli_pc = "parsed"
    /\ cli_cmd = "stt"
    /\ args_speak_back
    /\ EngineConfigured
    /\ cli_pc' = "done"
    /\ UNCHANGED <<cli_cmd, given_rate, given_volume, args_rate, args_volume,
                   args_speak_back>>
    /\ UNCHANGED notCli

\* _cmd_stt without --speak-back: no engine is made
CmdSttOnly ==
    /\ cli_pc = "parsed"
    /\ cli_cmd = "stt"
    /\ ~args_speak_back
    /\ cli_pc' = "done"
    /\ UNCHANGED <<cli_cmd, given_rate, given_volume, args_rate, args_volume,
                   args_speak_back, engine_set, engine_rate, engine_volume>>
    /\ UNCHANGED notCli

NextCli == AppParses \/ CmdTts \/ CmdSttSpeakBack \/ CmdSttOnly

\* C13: the rate and the volume the command line configures the engine with
\* are the values given (the defaults 180 and 0.9 when not given), except
\* that a given 0 is replaced by the default: the engine never gets rate 0
\* or volume 0.0 from the command line.
C13_ZeroMeansDefault ==
    /\ engine_set =>
          /\ cli_pc = "done"
          /\ engine_rate =
                (IF given_rate \in {None, Some(0)} THEN 180 ELSE given_rate[1])
          /\ engine_volume =
                (IF given_volume \in {None, Some(0)} THEN 9 ELSE given_volume[1])
          /\ engine_rate # 0
          /\ engine_volume # 0
    /\ cli_pc = "done" => (engine_set = (cli_cmd = "tts" \/ args_speak_back))

\* stt --speak-back --rate 0 --volume 0.0 has configured the engine
C13_Witness ==
    /\ cli_pc = "done"
    /\ cli_cmd = "stt"
    /\ given_rate = Some(0)
    /\ given_volume = Some(0)
    /\ engine_set
    /\ engine_rate = 180
    /\ engine_volume = 9

(***************************************************************************)
(* The window's Read PDF and Stop buttons: App._start_tts and              *)
(* App._stop_tts (gui.py 154-179) over text_to_speech(async_play=True)     *)
(* (tts.py 80-104).  Every call of text_to_speech makes a TTSEngine, a     *)
(* session, with the engine its __init__ gets from pyttsx3.init(); the     *)
(* session's one thread runs speak() on it.  As in the part above, say()   *)
(* queues an utterance, runAndWait() renders the queue and stop() empties  *)
(* it.                                                                     *)
(***************************************************************************)
Sessions == 1..MaxReads

\* session g has a chunk to queue, or a chunk in its engine's queue
GuiPlaying(g) ==
    \/ gs_pc[g] = "say" /\ gs_todo[g] > 0
    \/ gs_pc[g] \in {"say", "run"} /\ gs_queue[g] > 0

GuiIdle ==
    /\ gui_handle = 0
    /\ sessions = 0
    /\ gui_last = "none"
    /\ stops_pressed = 0
    /\ gs_pc = [g \in Sessions |-> "none"]
    /\ gs_chunks = [g \in Sessions |-> 0]
    /\ gs_todo = [g \in Sessions |-> 0]
    /\ gs_queue = [g \in Sessions |-> 0]
    /\ gs_spoken = [g \in Sessions |-> 0]
    /\ gs_stops = [g \in Sessions |-> <<>>]

\* TTSEngine.stop() on session g, called by "by": its engine's queue is
\* emptied.  The call is recorded with the newest session at that moment,
\* the utterances it removed and the sessions that were playing.
SessionStopped(g, by) ==
    /\ gs_queue' = [gs_queue EXCEPT ![g] = 0]
    /\ gs_stops' =
          [gs_stops EXCEPT ![g] =
              Append(@, [by |-> by,
                         newest |-> sessions,
                         cut |-> gs_queue[g],
                         playing |-> {q \in Sessions : GuiPlaying(q)}])]

\* a mutant of SpeakAsyncStops: the stop reaches the session held before
SpeakAsyncStopsHeld(fresh) == IF gui_handle # 0 THEN gui_handle ELSE fresh

\* speak_async: "self.stop()", the session the call acts on
SpeakAsyncStops(fresh) == fresh

\* _start_tts, no path chosen: a warning, and nothing else
StartTtsMissingFile ==
    /\ gui_last' = "warning"
    /\ UNCHANGED <<gui_handle, sessions, stops_pressed, gs_pc, gs_chunks,
                   gs_todo, gs_queue, gs_spoken, gs_stops>>
    /\ UNCHANGED notGui

\* _start_tts, extract_text_from_pdf or TTSEngine() raises: an error box,
\* self._tts_engine keeps its value
StartTtsError ==
    /\ gui_last' = "error"
    /\ UNCHANGED <<gui_handle, sessions, stops_pressed, gs_pc, gs_chunks,
                   gs_todo, gs_queue, gs_spoken, gs_stops>>
    /\ UNCHANGED notGui

\* _start_tts: text_to_speech makes a session over a text of n chunks,
\* speak_async stops and starts the thread, the session is stored
StartTtsReads ==
    /\ sessions < MaxReads
    /\ \E n \in 0..MaxGuiChunks :
          /\ gs_chunks' = [gs_chunks EXCEPT ![sessions + 1] = n]
          /\ gs_todo' = [gs_todo EXCEPT ![sessions + 1] = n]
    /\ SessionStopped(SpeakAsyncStops(sessions + 1), "speak_async")
    /\ gs_pc' = [gs_pc EXCEPT ![sessions + 1] = "say"]
    /\ sessions' = sessions + 1
    /\ gui_handle' = sessions + 1
    /\ gui_last' = "reading"
    /\ UNCHANGED <<stops_pressed, gs_spoken>>
    /\ UNCHANGED notGui

\* _stop_tts with a session stored: its stop()
StopTts ==
    /\ stops_pressed < MaxStops
    /\ gui_handle # 0
    /\ SessionStopped(gui_handle, "stop_press")
    /\ stops_pressed' = stops_pressed + 1
    /\ gui_last' = "stopped"
    /\ UNCHANGED <<gui_handle, sessions, gs_pc, gs_chunks, gs_todo, gs_spoken>>
    /\ UNCHANGED notGui

\* _stop_tts with self._tts_engine None: nothing is called
StopTtsNoSession ==
    /\ stops_pressed < MaxStops
    /\ gui_handle = 0
    /\ stops_pressed' = stops_pressed + 1
    /\ gui_last' = "ignored"
    /\ UNCHANGED <<gui_handle, sessions, gs_pc, gs_chunks, gs_todo, gs_queue,
                   gs_spoken, gs_stops>>
    /\ UNCHANGED notGui

\* speak on session g, one iteration of the for loop: a chunk is queued
\* (the chunks of text_to_speech are slices of the stripped text, never
\* empty)
SessionSay(g) ==
    /\ gs_pc[g] = "say"
    /\ gs_todo[g] > 0
    /\ gs_todo' = [gs_todo EXCEPT ![g] = @ - 1]
    /\ gs_queue' = [gs_queue EXCEPT ![g] = @ + 1]
    /\ UNCHANGED <<gui_handle, sessions, gui_last, stops_pressed, gs_pc,
                   gs_chunks, gs_spoken, gs_stops>>
    /\ UNCHANGED notGui

\* speak on session g, after the loop: runAndWait() starts the engine's loop
SessionRunAndWait(g) ==
    /\ gs_pc[g] = "say"
    /\ gs_todo[g] = 0
    /\ gs_pc' = [gs_pc EXCEPT ![g] = "run"]
    /\ UNCHANGED <<gui_handle, sessions, gui_last, stops_pressed, gs_chunks,
                   gs_todo, gs_queue, gs_spoken, gs_stops>>
    /\ UNCHANGED notGui

\* the loop of session g's engine renders the next utterance
SessionRender(g) ==
    /\ gs_pc[g] = "run"
    /\ gs_queue[g] > 0
    /\ gs_queue' = [gs_queue EXCEPT ![g] = @ - 1]
    /\ gs_spoken' = [gs_spoken EXCEPT ![g] = @ + 1]
    /\ UNCHANGED <<gui_handle, sessions, gui_last, stops_pressed, gs_pc,
                   gs_chunks, gs_todo, gs_stops>>
    /\ UNCHANGED notGui

\* the queue of session g is empty: runAndWait() returns, the thread ends
SessionLoopEnds(g) ==
    /\ gs_pc[g] = "run"
    /\ gs_queue[g] = 0
    /\ gs_pc' = [gs_pc EXCEPT ![g] = "finished"]
    /\ UNCHANGED <<gui_handle, sessions, gui_last, stops_pressed, gs_chunks,
                   gs_todo, gs_queue, gs_spoken, gs_stops>>
    /\ UNCHANGED notGui

NextGui ==
    \/ StartTtsMissingFile
    \/ StartTtsError
    \/ StartTtsReads
    \/ StopTts
    \/ StopTtsNoSession
    \/ \E g \in Sessions : SessionSay(g)
    \/ \E g \in Sessions : SessionRunAndWait(g)
    \/ \E g \in Sessions : SessionRender(g)
    \/ \E g \in Sessions : SessionLoopEnds(g)

\* the stop() calls on session g that a Stop press made
PressStops(g) ==
    {k \in 1..Len(gs_stops[g]) : gs_stops[g][k].by = "stop_press"}

Init ==
    /\ ChunkIdle /\ ExtractIdle /\ WrapIdle /\ TTSIdle /\ STTIdle
    /\ WriteIdle /\ CliIdle /\ GuiIdle

SpecChunk == Init /\ [][NextChunk]_vars

SpecExtract == Init /\ [][NextExtract]_vars

SpecWrap == Init /\ [][NextWrap]_vars

SpecTTS == Init /\ [][NextTTS]_vars

SpecSTT == Init /\ [][NextSTT]_vars

\* the parts share no state: each is checked under its own specification
SpecWrite == Init /\ [][NextWrite]_vars

SpecCli == Init /\ [][NextCli]_vars

SpecGui == Init /\ [][NextGui]_vars

Next ==
    \/ NextChunk \/ NextExtract \/ NextWrap \/ NextTTS \/ NextSTT
    \/ NextWrite \/ NextCli \/ NextGui

Spec == Init /\ [][Next]_vars

=============================================================================
